---- MODULE Spec2Model ----
(***************************************************************************)
(* The three request handlers of src/main.py (get_stock_info,              *)
(* get_stock_history, get_stock_calendar) as a state machine: a request    *)
(* arrives together with the behaviour the data provider will show for it, *)
(* the handler runs to a response, the response is sent.                   *)
(*                                                                         *)
(* Python values are tagged records (kind = the Python type).  A dict is a *)
(* function from its keys, a list a sequence, a DataFrame a record that    *)
(* keeps its index, its column labels, each column's dtype and each        *)
(* column's values.  An exception is a record with its class; HTTPException*)
(* carries status_code and detail, every other class its message in detail.*)
(***************************************************************************)
EXTENDS Integers, Sequences, FiniteSets, TLC

VARIABLES pc, req, prov, resp

vars == <<pc, req, prov, resp>>

\* Most rows a provider DataFrame holds.
MaxRows == 2

(***************************************************************************)
(* Python values                                                           *)
(***************************************************************************)
PyNone == [kind |-> "NoneType"]

PyStr(s) == [kind |-> "str", s |-> s]

PyNum(n) == [kind |-> "float", n |-> n]

PyTs(tz, day) == [kind |-> "Timestamp", tz |-> tz, day |-> day]

PyDate(y, m, d) == [kind |-> "date", year |-> y, month |-> m, day |-> d]

PyDict(f) == [kind |-> "dict", items |-> f]

PyList(s) == [kind |-> "list", elems |-> s]

EmptyDict == PyDict([k \in {} |-> PyNone])

DataFrame(index_name, index_dtype, index, columns, dtypes, data) ==
    [kind |-> "DataFrame", index_name |-> index_name, index_dtype |-> index_dtype,
     index |-> index, columns |-> columns, dtypes |-> dtypes, data |-> data]

\* A handler's or a provider call's outcome: a returned value or a raised exception.
Return(v) == [kind |-> "return", value |-> v]

Raise(e) == [kind |-> "raise", exc |-> e]

HTTPException(status_code, detail) ==
    [cls |-> "HTTPException", status_code |-> status_code, detail |-> detail]

OtherException(cls, msg) == [cls |-> cls, status_code |-> 0, detail |-> msg]

\* The classes an exception of class cls is an instance of.
Mro(cls) == {cls, "Exception", "BaseException"}

IsInstanceExc(e, cls) == cls \in Mro(e.cls)

\* str(e): Starlette's HTTPException prints "<status_code>: <detail>", the
\* built-in exceptions print their message.
StrExc(e) ==
    IF e.cls = "HTTPException"
    THEN ToString(e.status_code) \o ": " \o e.detail
    ELSE e.detail

AmbiguousTruth ==
    OtherException("ValueError", "The truth value of a DataFrame is ambiguous. Use a.empty, a.bool(), a.item(), a.any() or a.all().")

\* bool(v), as `not v` and `a or b` evaluate it: "True", "False", or "ValueError"
\* for a DataFrame, whose __bool__ raises whatever it holds.
Bool(v) ==
    CASE v.kind = "NoneType" -> "False"
      [] v.kind = "dict" -> IF DOMAIN v.items = {} THEN "False" ELSE "True"
      [] v.kind = "list" -> IF Len(v.elems) = 0 THEN "False" ELSE "True"
      [] v.kind = "str" -> IF v.s = "" THEN "False" ELSE "True"
      [] v.kind = "float" -> IF v.n = 0 THEN "False" ELSE "True"
      [] v.kind = "DataFrame" -> "ValueError"
      [] OTHER -> "True"

\* a or b, for operands whose truth value is defined.
PyOr(a, b) == IF Bool(a) = "True" THEN a ELSE b

(***************************************************************************)
(* Text conversions                                                        *)
(***************************************************************************)
Pad2(n) == IF n < 10 THEN "0" \o ToString(n) ELSE ToString(n)

Pad4(n) ==
    IF n < 10 THEN "000" \o ToString(n)
    ELSE IF n < 100 THEN "00" \o ToString(n)
    ELSE IF n < 1000 THEN "0" \o ToString(n)
    ELSE ToString(n)

\* date.isoformat(): YYYY-MM-DD
DateIsoFormat(d) == Pad4(d.year) \o "-" \o Pad2(d.month) \o "-" \o Pad2(d.day)

\* The UTC offset a Timestamp of January 2024 prints for its timezone ("" = naive).
UtcOffset(tz) ==
    CASE tz = "" -> ""
      [] tz = "UTC" -> "+00:00"
      [] tz = "America/New_York" -> "-05:00"
      [] tz = "Europe/London" -> "+00:00"
      [] tz = "Asia/Tokyo" -> "+09:00"

\* Timestamp.isoformat(): date and time joined by "T".
TsIsoFormat(ts) == "2024-01-" \o Pad2(ts.day) \o "T00:00:00" \o UtcOffset(ts.tz)

\* str(Timestamp): date and time joined by a space.
TsStr(ts) == "2024-01-" \o Pad2(ts.day) \o " 00:00:00" \o UtcOffset(ts.tz)

\* str(v), as an f-string field and astype(str) render a value.
Str(v) ==
    CASE v.kind = "str" -> v.s
      [] v.kind = "NoneType" -> "None"
      [] v.kind = "float" -> ToString(v.n) \o ".0"
      [] v.kind = "Timestamp" -> TsStr(v)
      [] v.kind = "date" -> DateIsoFormat(v)

UpperLetters ==
    <<"A", "B", "C", "D", "E", "F", "G", "H", "I", "J", "K", "L", "M",
      "N", "O", "P", "Q", "R", "S", "T", "U", "V", "W", "X", "Y", "Z">>

LowerLetters ==
    <<"a", "b", "c", "d", "e", "f", "g", "h", "i", "j", "k", "l", "m",
      "n", "o", "p", "q", "r", "s", "t", "u", "v", "w", "x", "y", "z">>

LowerChar(c) ==
    IF \E i \in DOMAIN UpperLetters : UpperLetters[i] = c
    THEN LowerLetters[CHOOSE i \in DOMAIN UpperLetters : UpperLetters[i] = c]
    ELSE c

\* str.lower() of a string given as its sequence of characters.
Lower(chars) == [i \in DOMAIN chars |-> LowerChar(chars[i])]

(***************************************************************************)
(* The framework around a handler                                          *)
(***************************************************************************)
NoResponse ==
    [status_code |-> 0, detail |-> "", body |-> PyNone, media_type |-> "",
     content_disposition |-> ""]

\* What FastAPI sends for a handler's outcome: an HTTPException becomes a response
\* with its status_code and detail, a returned Response object is sent as it is,
\* any other returned value is the JSON body of a 200.
ToResponse(outcome) ==
    IF outcome.kind = "raise"
    THEN [status_code |-> outcome.exc.status_code, detail |-> outcome.exc.detail,
          body |-> PyNone, media_type |-> "application/json",
          content_disposition |-> ""]
    ELSE IF outcome.value.kind = "StreamingResponse"
    THEN [status_code |-> 200, detail |-> "", body |-> outcome.value.content,
          media_type |-> outcome.value.media_type,
          content_disposition |-> outcome.value.content_disposition]
    ELSE [status_code |-> 200, detail |-> "", body |-> outcome.value,
          media_type |-> "application/json", content_disposition |-> ""]

\* try: <body> except Exception as e: raise HTTPException(500, prefix + str(e)).
\* The clause catches every exception that is an instance of Exception.
ExceptException(outcome, prefix) ==
    IF outcome.kind = "raise" /\ IsInstanceExc(outcome.exc, "Exception")
    THEN Raise(HTTPException(500, prefix \o StrExc(outcome.exc)))
    ELSE outcome

(***************************************************************************)
(* get_stock_info                                                          *)
(***************************************************************************)
\* The body of the try block; p is the outcome of reading stock.info.
InfoTry(ticker, p) ==
    IF p.kind = "raise" THEN p
    ELSE LET info == p.value IN
         IF Bool(info) = "False" \/ "symbol" \notin DOMAIN info.items
         THEN Raise(HTTPException(404, "Could not find information for ticker: " \o ticker))
         ELSE Return(info)

get_stock_info(ticker, p) == ExceptException(InfoTry(ticker, p), "An error occurred: ")

(***************************************************************************)
(* pandas operations the history handler uses                              *)
(***************************************************************************)
Dtype(base, tz) == [base |-> base, tz |-> tz]

\* The scalar type pandas attaches to a dtype (dtype.type, and what
\* infer_dtype_from_object gives for a dtype string): numpy.datetime64 for the
\* naive datetime64[ns], Timestamp for datetime64[ns, tz] of every tz.
DtypeScalarType(dt) ==
    IF dt.base = "datetime64"
    THEN IF dt.tz = "" THEN "numpy.datetime64" ELSE "pandas.Timestamp"
    ELSE "numpy." \o dt.base

\* The include list of the two select_dtypes calls:
\* 'datetime64[ns]', 'datetime64[ns, UTC]', 'datetime64[ns, America/New_York]'.
IncludeDtypes ==
    <<Dtype("datetime64", ""), Dtype("datetime64", "UTC"),
      Dtype("datetime64", "America/New_York")>>

\* A column selected only when its dtype is literally one of the listed ones.
SelectedExactDtype(dt, include) == \E i \in DOMAIN include : include[i] = dt

\* select_dtypes' test of one column: the include entries are first resolved to
\* scalar types, and a column is selected when its dtype's scalar type is one of them.
Selected(dt, include) ==
    DtypeScalarType(dt) \in {DtypeScalarType(include[i]) : i \in DOMAIN include}

\* df.select_dtypes(include=...).columns
SelectDtypes(df, include) ==
    SelectSeq(df.columns, LAMBDA c : Selected(df.dtypes[c], include))

\* df.empty: some axis has length 0.
IsEmpty(df) == Len(df.index) = 0 \/ Len(df.columns) = 0

\* df.reset_index(): the index becomes the first column, a fresh 0..n-1 index replaces it.
ResetIndex(df) ==
    DataFrame("", Dtype("int64", ""), [i \in DOMAIN df.index |-> PyNum(i - 1)],
              <<df.index_name>> \o df.columns,
              (df.index_name :> df.index_dtype) @@ df.dtypes,
              (df.index_name :> df.index) @@ df.data)

\* df[col] = df[col].astype(str)
AstypeStr(df, col) ==
    [df EXCEPT !.dtypes[col] = Dtype("object", ""),
               !.data[col] = [i \in DOMAIN @ |-> PyStr(Str(@[i]))]]

RECURSIVE AstypeStrAll(_, _)
\* for col in cols: df[col] = df[col].astype(str)
AstypeStrAll(df, cols) ==
    IF cols = <<>> THEN df
    ELSE AstypeStrAll(AstypeStr(df, Head(cols)), Tail(cols))

\* df.to_dict(orient='records'): one mapping from column label to value per row.
ToDictRecords(df) ==
    PyList([i \in DOMAIN df.index |->
              PyDict([c \in {df.columns[j] : j \in DOMAIN df.columns} |-> df.data[c][i]])])

\* df.to_csv(buffer): a header line, then one line per row, the index first.
ToCsv(df) ==
    [kind |-> "text",
     lines |-> <<(<<df.index_name>> \o df.columns)>> \o
               [i \in DOMAIN df.index |->
                  <<Str(df.index[i])>> \o
                  [j \in DOMAIN df.columns |-> Str(df.data[df.columns[j]][i])]]]

StreamingResponse(content, media_type, content_disposition) ==
    [kind |-> "StreamingResponse", content |-> content, media_type |-> media_type,
     content_disposition |-> content_disposition]

(***************************************************************************)
(* get_stock_history                                                       *)
(***************************************************************************)
\* start.isoformat() if start else None
DateStr(d) == IF Bool(d) = "True" THEN PyStr(DateIsoFormat(d)) ELSE PyNone

\* The period used although a start date was given.
CsvFilenamePeriodFirst(ticker, start_str, period, end_str) ==
    ticker \o "_history_" \o Str(PyOr(period, start_str)) \o "_"
           \o Str(PyOr(end_str, PyStr("latest"))) \o ".csv"

\* f"{ticker}_history_{start_str or period}_{end_str or 'latest'}.csv"
CsvFilename(ticker, start_str, period, end_str) ==
    ticker \o "_history_" \o Str(PyOr(start_str, period)) \o "_"
           \o Str(PyOr(end_str, PyStr("latest"))) \o ".csv"

\* hist_df.reset_index() with its selected date/time columns turned into strings
\* (done once before the format is looked at, and again in the json branch).
ResetAndConvert(hist_df) ==
    LET hist_df_reset == ResetIndex(hist_df)
    IN  AstypeStrAll(hist_df_reset, SelectDtypes(hist_df_reset, IncludeDtypes))

\* The body of the try block; p is the outcome of stock.history(...).
HistoryTry(r, p) ==
    LET start_str == DateStr(r.start)
        end_str == DateStr(r.end)
    IN  IF p.kind = "raise" THEN p
        ELSE LET hist_df == p.value IN
             IF hist_df.kind # "DataFrame"
             THEN Raise(OtherException("AttributeError",
                        "'NoneType' object has no attribute 'empty'"))
             ELSE IF IsEmpty(hist_df)
             THEN Raise(HTTPException(404, "Could not find history for ticker: "
                        \o r.ticker \o " with specified parameters."))
             ELSE LET hist_df_reset == ResetAndConvert(hist_df) IN
             IF Lower(r.format) = <<"c", "s", "v">>
             THEN Return(StreamingResponse(ToCsv(hist_df), "text/csv",
                        "attachment; filename="
                        \o CsvFilename(r.ticker, start_str, PyStr(r.period), end_str)))
             ELSE IF Lower(r.format) = <<"j", "s", "o", "n">>
             THEN Return(ToDictRecords(ResetAndConvert(hist_df)))
             ELSE Raise(HTTPException(400,
                        "Invalid format specified. Choose 'json' or 'csv'."))

get_stock_history(r, p) ==
    ExceptException(HistoryTry(r, p), "An error occurred while fetching history: ")

(***************************************************************************)
(* get_stock_calendar                                                      *)
(***************************************************************************)
\* val.isoformat() if isinstance(val, pd.Timestamp), else val as it is.
IsoIfTimestamp(v) == IF v.kind = "Timestamp" THEN PyStr(TsIsoFormat(v)) ELSE v

\* df.to_dict(): column label -> (index label -> value).
ToDict(df) ==
    PyDict([c \in {df.columns[j] : j \in DOMAIN df.columns} |->
              PyDict([l \in {df.index[i] : i \in DOMAIN df.index} |->
                        df.data[c][CHOOSE i \in DOMAIN df.index : df.index[i] = l]])])

\* The DataFrame branch's loops: every value of every nested mapping is checked.
ConvertNested(d) ==
    PyDict([k \in DOMAIN d.items |->
              PyDict([e \in DOMAIN d.items[k].items |->
                        IsoIfTimestamp(d.items[k].items[e])])])

\* A conversion that also descends into nested mappings and lists.
ConvertTopLevelDeep(d) ==
    PyDict([k \in DOMAIN d.items |->
              LET v == d.items[k] IN
              CASE v.kind = "dict" ->
                     PyDict([e \in DOMAIN v.items |-> IsoIfTimestamp(v.items[e])])
                [] v.kind = "list" ->
                     PyList([i \in DOMAIN v.elems |-> IsoIfTimestamp(v.elems[i])])
                [] OTHER -> IsoIfTimestamp(v)])

\* The dict branch's loop: only the top-level values are checked.
ConvertTopLevel(d) == PyDict([k \in DOMAIN d.items |-> IsoIfTimestamp(d.items[k])])

\* The handler without its final else: a value of any other type leaves
\* calendar_dict as the empty mapping it was initialised to.
CalendarTryNoElse(ticker, p) ==
    IF p.kind = "raise" THEN p
    ELSE LET calendar_data == p.value IN
         CASE Bool(calendar_data) = "ValueError" -> Raise(AmbiguousTruth)
           [] Bool(calendar_data) = "False" ->
                Raise(HTTPException(404,
                      "Could not find calendar information for ticker: " \o ticker))
           [] OTHER ->
                IF calendar_data.kind = "DataFrame"
                THEN Return(ConvertNested(ToDict(calendar_data)))
                ELSE IF calendar_data.kind = "dict"
                THEN Return(ConvertTopLevel(calendar_data))
                ELSE Return(EmptyDict)

\* The body of the try block; p is the outcome of reading stock.calendar.
CalendarTry(ticker, p) ==
    IF p.kind = "raise" THEN p
    ELSE LET calendar_data == p.value IN
         CASE Bool(calendar_data) = "ValueError" -> Raise(AmbiguousTruth)
           [] Bool(calendar_data) = "False" ->
                Raise(HTTPException(404,
                      "Could not find calendar information for ticker: " \o ticker))
           [] OTHER ->
                IF calendar_data.kind = "DataFrame"
                THEN Return(ConvertNested(ToDict(calendar_data)))
                ELSE IF calendar_data.kind = "dict"
                THEN Return(ConvertTopLevel(calendar_data))
                ELSE Raise(HTTPException(500,
                           "Unexpected data type received for calendar."))

get_stock_calendar(ticker, p) ==
    ExceptException(CalendarTry(ticker, p),
                    "An error occurred while fetching calendar data: ")

(***************************************************************************)
(* Requests and provider behaviours                                        *)
(***************************************************************************)
Tickers == {"AAPL", "VOD.L"}

Periods == {"1mo", "5d", ""}

Intervals == {"1d"}

\* start / end: absent, or a calendar date.
Dates == {PyNone, PyDate(2024, 1, 5), PyDate(987, 12, 31)}

\* The format parameter, character by character.
Formats ==
    {<<"j", "s", "o", "n">>, <<"J", "S", "O", "N">>, <<"J", "s", "o", "n">>,
     <<"c", "s", "v">>, <<"C", "S", "V">>, <<"c", "S", "v">>,
     <<"x", "m", "l">>, <<"c", "s", "v", "s">>, <<>>}

Timezones == {"", "UTC", "America/New_York", "Europe/London", "Asia/Tokyo"}

ProviderErrors ==
    {OtherException("ConnectionError", "Max retries exceeded"),
     OtherException("KeyError", "'quoteType'")}

InfoRequests ==
    {[handler |-> "info", ticker |-> t, period |-> "1mo", interval |-> "1d",
      start |-> PyNone, end |-> PyNone, format |-> <<"j", "s", "o", "n">>] :
       t \in Tickers}

HistoryRequests ==
    [handler : {"history"}, ticker : Tickers, period : Periods, interval : Intervals,
     start : Dates, end : Dates, format : Formats]

CalendarRequests ==
    {[handler |-> "calendar", ticker |-> t, period |-> "1mo", interval |-> "1d",
      start |-> PyNone, end |-> PyNone, format |-> <<"j", "s", "o", "n">>] :
       t \in Tickers}

\* Every mapping from a subset of keys to values.
Mappings(keys, values) == UNION {[ks -> values] : ks \in SUBSET keys}

\* stock.info: a mapping of descriptive fields, possibly empty, or None.
InfoValues ==
    {PyNone} \cup
    {PyDict(f) : f \in Mappings({"symbol", "longName", "currency"},
                                {PyStr("AAPL"), PyStr("USD")})}

\* A datetime column of n rows in timezone tz.
TsColumn(tz, n) == [i \in 1..n |-> PyTs(tz, i)]

\* stock.history(...): a frame indexed by time with a Close column and, for some
\* providers' intervals, one more date/time column; or None.
HistoryValues ==
    {PyNone} \cup
    {DataFrame("Date", Dtype("datetime64", tz), TsColumn(tz, n), <<"Close">>,
               "Close" :> Dtype("float64", ""),
               "Close" :> [i \in 1..n |-> PyNum(100 + i)]) :
       tz \in Timezones, n \in 0..MaxRows} \cup
    {DataFrame("Datetime", Dtype("datetime64", tz), TsColumn(tz, n),
               <<"Close", "Settled">>,
               ("Close" :> Dtype("float64", "")) @@ ("Settled" :> Dtype("datetime64", tz2)),
               ("Close" :> [i \in 1..n |-> PyNum(100 + i)])
                 @@ ("Settled" :> TsColumn(tz2, n))) :
       tz \in {"America/New_York", "Europe/London"}, tz2 \in Timezones,
       n \in 0..MaxRows}

\* The values found in a calendar mapping: instants, numbers, lists and nested
\* mappings of instants.
CalendarFieldValues ==
    {PyTs("", 9), PyTs("Europe/London", 25), PyNum(3),
     PyList(<<PyTs("", 9), PyTs("", 10)>>),
     PyDict("Value" :> PyTs("UTC", 9))}

\* stock.calendar: a mapping, a frame, or something else (None, a list, a string).
CalendarValues ==
    {PyNone, PyList(<<>>), PyList(<<PyTs("", 9)>>), PyList(<<PyNum(3)>>),
     PyStr(""), PyStr("n/a"), PyNum(0), PyNum(3)} \cup
    {PyDict(f) : f \in Mappings({"Earnings Date", "Ex-Dividend Date"},
                                CalendarFieldValues)} \cup
    {DataFrame("", Dtype("int64", ""), [i \in 1..n |-> i - 1], <<"Earnings Date">>,
               "Earnings Date" :> Dtype("datetime64", tz),
               "Earnings Date" :> TsColumn(tz, n)) :
       tz \in {"", "America/New_York"}, n \in 0..MaxRows}

Outcomes(values) == {Return(v) : v \in values} \cup {Raise(e) : e \in ProviderErrors}

NoRequest ==
    [handler |-> "", ticker |-> "", period |-> "", interval |-> "",
     start |-> PyNone, end |-> PyNone, format |-> <<>>]

(***************************************************************************)
(* The state machine                                                       *)
(***************************************************************************)
Init ==
    /\ pc = "idle"
    /\ req = NoRequest
    /\ prov = Return(PyNone)
    /\ resp = NoResponse

\* A request is routed to its handler; prov is what the provider will do for it.
ReceiveInfo ==
    /\ pc = "idle"
    /\ \E r \in InfoRequests, p \in Outcomes(InfoValues) : req' = r /\ prov' = p
    /\ pc' = "handling"
    /\ resp' = NoResponse

ReceiveHistory ==
    /\ pc = "idle"
    /\ \E r \in HistoryRequests, p \in Outcomes(HistoryValues) : req' = r /\ prov' = p
    /\ pc' = "handling"
    /\ resp' = NoResponse

ReceiveCalendar ==
    /\ pc = "idle"
    /\ \E r \in CalendarRequests, p \in Outcomes(CalendarValues) : req' = r /\ prov' = p
    /\ pc' = "handling"
    /\ resp' = NoResponse

HandleInfo ==
    /\ pc = "handling" /\ req.handler = "info"
    /\ resp' = ToResponse(get_stock_info(req.ticker, prov))
    /\ pc' = "done"
    /\ UNCHANGED <<req, prov>>

HandleHistory ==
    /\ pc = "handling" /\ req.handler = "history"
    /\ resp' = ToResponse(get_stock_history(req, prov))
    /\ pc' = "done"
    /\ UNCHANGED <<req, prov>>

HandleCalendar ==
    /\ pc = "handling" /\ req.handler = "calendar"
    /\ resp' = ToResponse(get_stock_calendar(req.ticker, prov))
    /\ pc' = "done"
    /\ UNCHANGED <<req, prov>>

\* The response has been sent; nothing of the request is kept.
Finish ==
    /\ pc = "done"
    /\ pc' = "idle"
    /\ req' = NoRequest
    /\ prov' = Return(PyNone)
    /\ resp' = NoResponse

Next ==
    \/ ReceiveInfo
    \/ ReceiveHistory
    \/ ReceiveCalendar
    \/ HandleInfo
    \/ HandleHistory
    \/ HandleCalendar
    \/ Finish

Spec == Init /\ [][Next]_vars

(***************************************************************************)
(* Properties                                                              *)
(***************************************************************************)
Done(h) == pc = "done" /\ req.handler = h

Returned(kind) == prov.kind = "return" /\ prov.value.kind = kind

NonEmptyFrame == Returned("DataFrame") /\ Len(prov.value.index) > 0

EmptyFrame == Returned("DataFrame") /\ Len(prov.value.index) = 0

JsonSpellings == {<<"j", "s", "o", "n">>, <<"J", "S", "O", "N">>, <<"J", "s", "o", "n">>}

CsvSpellings == {<<"c", "s", "v">>, <<"C", "S", "V">>, <<"c", "S", "v">>}

\* C1: when the provider's info mapping is empty or has no key 'symbol', the info
\* endpoint answers 404.
C1_InfoWithoutSymbolIs404 ==
    (Done("info") /\ Returned("dict") /\ "symbol" \notin DOMAIN prov.value.items)
        => resp.status_code = 404

\* C2: when the format is neither json nor csv in any letter case and the provider
\* returned rows, the history endpoint answers 400.
C2_InvalidFormatIs400 ==
    (Done("history") /\ NonEmptyFrame /\ req.format \notin (JsonSpellings \cup CsvSpellings))
        => resp.status_code = 400

\* C3: when the provider returns zero rows, the history endpoint answers 404,
\* whatever the format.
C3_NoRowsIs404 ==
    (Done("history") /\ EmptyFrame) => resp.status_code = 404

\* C4: when the provider's calendar is None, an empty mapping, an empty frame or an
\* empty list, the calendar endpoint answers 404.
C4_EmptyCalendarIs404 ==
    (Done("calendar") /\ prov.kind = "return"
        /\ \/ prov.value \in {PyNone, EmptyDict, PyList(<<>>)}
           \/ EmptyFrame)
        => resp.status_code = 404

\* A calendar result that is not empty and neither a frame nor a mapping.
NonEmptyOther ==
    /\ prov.kind = "return"
    /\ \/ prov.value.kind = "list" /\ prov.value.elems # <<>>
       \/ prov.value.kind = "str" /\ prov.value.s # ""
       \/ prov.value.kind = "float" /\ prov.value.n # 0

\* C5: a non-empty calendar result that is neither a frame nor a mapping (a non-empty
\* list, say) is answered with 500 and a message naming the unexpected data type.
C5_UnexpectedTypeIs500 ==
    (Done("calendar") /\ NonEmptyOther)
        => /\ resp.status_code = 500
           /\ resp.detail = "An error occurred while fetching calendar data: "
                            \o "500: Unexpected data type received for calendar."

C5_Witness ==
    /\ Done("calendar")
    /\ prov = Return(PyList(<<PyTs("", 9)>>))
    /\ resp.status_code = 500

\* C6: a non-empty calendar frame is answered with 200 and a mapping keyed by the
\* frame's column labels whose per-row values hold a string for every instant.
C6_FrameIsConverted ==
    (Done("calendar") /\ NonEmptyFrame)
        => /\ resp.status_code = 200
           /\ resp.body.kind = "dict"
           /\ DOMAIN resp.body.items = {prov.value.columns[j] : j \in DOMAIN prov.value.columns}
           /\ \A c \in DOMAIN resp.body.items :
                \A l \in DOMAIN resp.body.items[c].items :
                   resp.body.items[c].items[l].kind = "str"

\* The ISO text of the dates the requests carry.
DateText(d) ==
    CASE d = PyDate(2024, 1, 5) -> "2024-01-05"
      [] d = PyDate(987, 12, 31) -> "0987-12-31"

\* C7: a csv request (any letter case) for which the provider returned rows is
\* answered with a text/csv attachment named <ticker>_history_<X>_<Y>.csv, X the ISO
\* start date if given, else the period, Y the ISO end date if given, else 'latest'.
C7_CsvFilename ==
    (Done("history") /\ NonEmptyFrame /\ req.format \in CsvSpellings)
        => /\ resp.status_code = 200
           /\ resp.media_type = "text/csv"
           /\ resp.content_disposition =
                "attachment; filename=" \o req.ticker \o "_history_"
                \o (IF req.start # PyNone THEN DateText(req.start) ELSE req.period)
                \o "_"
                \o (IF req.end # PyNone THEN DateText(req.end) ELSE "latest")
                \o ".csv"
           /\ (req.ticker = "AAPL" /\ req.period = "1mo" /\ req.start = PyNone
                 /\ req.end = PyNone)
                => resp.content_disposition
                     = "attachment; filename=AAPL_history_1mo_latest.csv"

C7_Witness ==
    /\ Done("history") /\ NonEmptyFrame
    /\ req.format = <<"c", "S", "v">>
    /\ req.period = "1mo" /\ req.start = PyDate(2024, 1, 5) /\ req.end = PyNone
    /\ resp.content_disposition = "attachment; filename=VOD.L_history_2024-01-05_latest.csv"

\* C8: a request ends in 200, 404, 400 or 500, and a NotFound (404) or BadRequest
\* (400) signal raised inside a handler reaches the client with its own status.
C8_SignalsKeepTheirStatus ==
    pc = "done" =>
        LET raised == CASE req.handler = "info" -> InfoTry(req.ticker, prov)
                        [] req.handler = "history" -> HistoryTry(req, prov)
                        [] req.handler = "calendar" -> CalendarTry(req.ticker, prov)
        IN  /\ resp.status_code \in {200, 400, 404, 500}
            /\ (raised.kind = "raise" /\ raised.exc.cls = "HTTPException"
                  /\ raised.exc.status_code \in {400, 404})
                 => resp.status_code = raised.exc.status_code

\* C9: in the rows of a json history response, the restored time index and every
\* other date/time column hold strings, whatever the column's timezone; no field
\* holds a Timestamp.
C9_JsonRowsHoldNoTimestamp ==
    (Done("history") /\ NonEmptyFrame /\ req.format \in JsonSpellings)
        => /\ resp.status_code = 200
           /\ resp.body.kind = "list"
           /\ Len(resp.body.elems) = Len(prov.value.index)
           /\ \A i \in DOMAIN resp.body.elems :
                LET row == resp.body.elems[i].items
                    cols == {prov.value.columns[j] : j \in DOMAIN prov.value.columns}
                IN  /\ DOMAIN row = {prov.value.index_name} \cup cols
                    /\ \A k \in DOMAIN row : row[k].kind # "Timestamp"
                    /\ row[prov.value.index_name].kind = "str"
                    /\ \A c \in cols :
                         prov.value.dtypes[c].base = "datetime64" => row[c].kind = "str"

C9_Witness ==
    /\ Done("history") /\ NonEmptyFrame
    /\ req.format = <<"J", "s", "o", "n">>
    /\ prov.value.index_dtype = Dtype("datetime64", "Europe/London")
    /\ "Settled" \in DOMAIN prov.value.dtypes
    /\ prov.value.dtypes["Settled"] = Dtype("datetime64", "Asia/Tokyo")
    /\ resp.status_code = 200
    /\ resp.body.elems[1].items["Datetime"] = PyStr("2024-01-01 00:00:00+00:00")
    /\ resp.body.elems[1].items["Settled"] = PyStr("2024-01-01 00:00:00+09:00")

\* The ISO-8601 text of the instants the calendar mappings carry.
InstantText(ts) ==
    CASE ts = PyTs("", 9) -> "2024-01-09T00:00:00"
      [] ts = PyTs("Europe/London", 25) -> "2024-01-25T00:00:00+00:00"

\* C10: a non-empty calendar mapping is answered with 200 and a mapping of the same
\* keys, each top-level instant replaced by its ISO-8601 string and every other
\* top-level value (nested mappings and lists of instants included) unchanged.
C10_MappingTopLevelOnly ==
    (Done("calendar") /\ Returned("dict") /\ DOMAIN prov.value.items # {})
        => /\ resp.status_code = 200
           /\ resp.body.kind = "dict"
           /\ DOMAIN resp.body.items = DOMAIN prov.value.items
           /\ \A k \in DOMAIN prov.value.items :
                LET v == prov.value.items[k] IN
                resp.body.items[k] = IF v.kind = "Timestamp" THEN PyStr(InstantText(v)) ELSE v

C10_Witness ==
    /\ Done("calendar")
    /\ prov = Return(PyDict(("Earnings Date" :> PyTs("Europe/London", 25))
                            @@ ("Ex-Dividend Date" :> PyDict("Value" :> PyTs("UTC", 9)))))
    /\ resp.status_code = 200
    /\ resp.body.items["Earnings Date"] = PyStr("2024-01-25T00:00:00+00:00")
    /\ resp.body.items["Ex-Dividend Date"] = PyDict("Value" :> PyTs("UTC", 9))

====
